---------------------------- MODULE Spec2Model ----------------------------
(***************************************************************************)
(* Model of mirage/apt/apt_inputs.py (class AptInput):                     *)
(*   - get_pointing_info : the line-oriented scanner of the pointing log   *)
(*   - base36encode      : the activity-id encoder                         *)
(*   - expand_for_detectors : one row per module -> one row per detector   *)
(*   - expand_for_dithers  : one row per exposure of a dither pattern      *)
(*   - add_observation_info : the columns read from the yaml list          *)
(*   - create_input_table  : the run from the XML table to the csv files   *)
(*                                                                         *)
(* Python strings are TLA+ strings (TLC evaluates Len, SubSeq and \o on    *)
(* them); a line of the file keeps its trailing "\n".                      *)
(***************************************************************************)
EXTENDS Integers, Sequences, FiniteSets, TLC

(* ------------------------------ bounds -------------------------------- *)
\* longest prefix of a pointing file that is scanned
MaxLines == 4
\* most rows of a table handed to expand_for_detectors
MaxRows == 2
\* base36encode is applied to the integers 0..MaxInteger
MaxInteger == 1400
\* most rows of a table handed to the dither step
MaxEntries == 3

(* ------------------------ Python string methods ----------------------- *)
Ch(s, i) == SubSeq(s, i, i)

Min(a, b) == IF a < b THEN a ELSE b
Max(a, b) == IF a > b THEN a ELSE b

\* s[a:b] for 0 <= a, 0 <= b (Python clamps both ends)
Slice(s, a, b) == SubSeq(s, Min(a, Len(s)) + 1, Min(b, Len(s)))

\* s[a:]
SliceFrom(s, a) == Slice(s, a, Len(s))

IsSpace(c) == c \in {" ", "\n", "\t", "\r"}

IsDigit(c) == c \in {"0", "1", "2", "3", "4", "5", "6", "7", "8", "9"}

DigitVal(c) ==
    CASE c = "0" -> 0 [] c = "1" -> 1 [] c = "2" -> 2 [] c = "3" -> 3
      [] c = "4" -> 4 [] c = "5" -> 5 [] c = "6" -> 6 [] c = "7" -> 7
      [] c = "8" -> 8 [] c = "9" -> 9

\* sub in s
Contains(s, sub) ==
    \E i \in 1..(Len(s) - Len(sub) + 1) : SubSeq(s, i, i + Len(sub) - 1) = sub

\* the 0-based indices at which sub occurs in s
Occurrences(s, sub) ==
    {i \in 0..(Len(s) - Len(sub)) : SubSeq(s, i + 1, i + Len(sub)) = sub}

\* s.find(sub): lowest index, -1 when absent
Find(s, sub) ==
    IF Occurrences(s, sub) = {} THEN -1
    ELSE CHOOSE i \in Occurrences(s, sub) : \A j \in Occurrences(s, sub) : i <= j

\* s.rfind(sub): highest index, -1 when absent
RFind(s, sub) ==
    IF Occurrences(s, sub) = {} THEN -1
    ELSE CHOOSE i \in Occurrences(s, sub) : \A j \in Occurrences(s, sub) : i >= j

RECURSIVE LStrip(_)
LStrip(s) == IF Len(s) > 0 /\ IsSpace(Ch(s, 1)) THEN LStrip(Tail(s)) ELSE s

RECURSIVE RStrip(_)
RStrip(s) ==
    IF Len(s) > 0 /\ IsSpace(Ch(s, Len(s))) THEN RStrip(SubSeq(s, 1, Len(s) - 1)) ELSE s

\* s.strip()
Strip(s) == RStrip(LStrip(s))

\* s.split(): the maximal runs of non-whitespace characters, in order
TokenStarts(s) ==
    {k \in 1..Len(s) : ~IsSpace(Ch(s, k)) /\ (k = 1 \/ IsSpace(Ch(s, k - 1)))}

TokenEnds(s) ==
    {k \in 1..Len(s) : ~IsSpace(Ch(s, k)) /\ (k = Len(s) \/ IsSpace(Ch(s, k + 1)))}

\* the n-th smallest member of a set of integers
Nth(S, n) == CHOOSE k \in S : Cardinality({j \in S : j < k}) = n - 1

RECURSIVE TokensFrom(_, _)
TokensFrom(s, n) ==
    IF n > Cardinality(TokenStarts(s)) THEN <<>>
    ELSE <<SubSeq(s, Nth(TokenStarts(s), n), Nth(TokenEnds(s), n))>>
         \o TokensFrom(s, n + 1)

Split(s) == TokensFrom(s, 1)

\* s.split(sep) for a one-character separator: the fields between separators
RECURSIVE SplitOnFrom(_, _, _, _, _)
SplitOnFrom(s, sep, i, cur, acc) ==
    IF i > Len(s) THEN Append(acc, cur)
    ELSE IF Ch(s, i) = sep
         THEN SplitOnFrom(s, sep, i + 1, "", Append(acc, cur))
         ELSE SplitOnFrom(s, sep, i + 1, cur \o Ch(s, i), acc)

SplitOn(s, sep) == SplitOnFrom(s, sep, 1, "", <<>>)

\* s.replace(old, new): every non-overlapping occurrence, left to right
RECURSIVE Replace(_, _, _)
Replace(s, old, new) ==
    IF Find(s, old) = -1 THEN s
    ELSE Slice(s, 0, Find(s, old)) \o new
         \o Replace(SliceFrom(s, Find(s, old) + Len(old)), old, new)

RECURSIVE Zeros(_)
Zeros(n) == IF n <= 0 THEN "" ELSE "0" \o Zeros(n - 1)

\* s.zfill(width): zeros go after a leading sign; never truncates
Zfill(s, width) ==
    IF Len(s) >= width THEN s
    ELSE IF Len(s) > 0 /\ Ch(s, 1) \in {"+", "-"}
         THEN Ch(s, 1) \o Zeros(width - Len(s)) \o Tail(s)
         ELSE Zeros(width - Len(s)) \o s

(* --------------------------- conversions ------------------------------ *)
\* the result of an expression that may raise: exc = "none" and its value,
\* or the name of the exception
Ok(v) == [exc |-> "none", val |-> v]
Raise(e) == [exc |-> e, val |-> 0]

RECURSIVE DigitsValue(_, _)
DigitsValue(s, acc) ==
    IF s = "" THEN acc ELSE DigitsValue(Tail(s), 10 * acc + DigitVal(Ch(s, 1)))

AllDigits(s) == Len(s) > 0 /\ \A i \in 1..Len(s) : IsDigit(Ch(s, i))

\* int(s) / np.int(s) for a whitespace-free token: optional sign, then digits
ParseInt(s) ==
    IF AllDigits(s) THEN Ok(DigitsValue(s, 0))
    ELSE IF Len(s) > 1 /\ Ch(s, 1) = "+" /\ AllDigits(Tail(s))
         THEN Ok(DigitsValue(Tail(s), 0))
    ELSE IF Len(s) > 1 /\ Ch(s, 1) = "-" /\ AllDigits(Tail(s))
         THEN Ok(0 - DigitsValue(Tail(s), 0))
    ELSE Raise("ValueError")

Digit(d) == Ch("0123456789", d + 1)

RECURSIVE NatToStr(_)
NatToStr(n) == IF n < 10 THEN Digit(n) ELSE NatToStr(n \div 10) \o Digit(n % 10)

\* "{0:05d}".format(n)
Format05d(n) == IF n < 0 THEN Zfill("-" \o NatToStr(0 - n), 5) ELSE Zfill(NatToStr(n), 5)

\* np.float(s) for a decimal literal [sign] digits [. digits]; the value is
\* kept as mantissa / 10^scale without trailing zeros in the fraction
RECURSIVE Normalise(_, _)
Normalise(mant, scale) ==
    IF scale > 0 /\ mant % 10 = 0 THEN Normalise(mant \div 10, scale - 1)
    ELSE [mant |-> mant, scale |-> scale]

UnsignedFloat(s) ==
    LET dot == Find(s, ".")
        ip  == IF dot = -1 THEN s ELSE Slice(s, 0, dot)
        fp  == IF dot = -1 THEN "" ELSE SliceFrom(s, dot + 1)
    IN  IF /\ Len(ip) + Len(fp) > 0
           /\ \A i \in 1..Len(ip) : IsDigit(Ch(ip, i))
           /\ \A i \in 1..Len(fp) : IsDigit(Ch(fp, i))
        THEN Ok(Normalise(DigitsValue(ip \o fp, 0), Len(fp)))
        ELSE Raise("ValueError")

ParseFloat(s) ==
    IF Len(s) > 0 /\ Ch(s, 1) = "-"
    THEN LET r == UnsignedFloat(Tail(s))
         IN  IF r.exc = "none"
             THEN Ok([mant |-> 0 - r.val.mant, scale |-> r.val.scale]) ELSE r
    ELSE IF Len(s) > 0 /\ Ch(s, 1) = "+" THEN UnsignedFloat(Tail(s))
    ELSE UnsignedFloat(s)

(* ---------------------------- base36encode ---------------------------- *)
chars == "0123456789abcdefghijklmnopqrstuvwxyz"

\* the while loop: prepend chars[remainder] until the quotient is 0
RECURSIVE base36loop(_, _)
base36loop(integer, encoded) ==
    IF integer > 0
    THEN base36loop(integer \div 36, Ch(chars, (integer % 36) + 1) \o encoded)
    ELSE encoded

\* a variant of the encoder without the final zfill(2)
base36encodeUnpadded(integer) == base36loop(integer, "")

\* line 351
base36encode(integer) == Zfill(base36loop(integer, ""), 2)

(* ------------------------------- state -------------------------------- *)
VARIABLES
    lines,          \* get_pointing_info: the lines read from f so far, in order
    propid,         \* get_pointing_info: the proposal id (argument, then header)
    loc,            \* get_pointing_info: the locals obslabel, skip, obsnum,
                    \*   visitnum, and which of them have been assigned
    act_counter,    \* get_pointing_info: the activity counter
    cols,           \* get_pointing_info: the per-row lists (tar, tile, exp, ...)
    pc,             \* get_pointing_info: "scan", "returned" or "raised"
    exc,            \* get_pointing_info: the exception that left the function
    pointing,       \* get_pointing_info: the returned dictionary
    obstab,         \* expand_for_detectors: the input table
    finaltab,       \* expand_for_detectors: the table being built
    detectors,      \* expand_for_detectors: the local of that name (<<>>: unassigned)
    row,            \* expand_for_detectors: the loop index i (0-based)
    dpc,            \* expand_for_detectors: "idle", "loop", "returned" or "raised"
    arg36,          \* base36encode: the argument integer
    ret36,          \* base36encode: the returned string
    bpc,            \* base36encode: "idle", "call" or "returned"
    apt_xml_dict,   \* create_input_table: tab, the table read from the XML file
    expanded,       \* expand_for_dithers: the dictionary of that name
    expanded_table, \* expand_for_dithers: the stacked rows (<<>>: None)
    xrow,           \* expand_for_dithers: the loop index i of the running pass
    xpc,            \* the dither step: "idle", "stage", "primary", "image",
                    \*   "returned" or "raised"
    xmltab,         \* create_input_table: the table after the dither step
    pointing_file,  \* create_input_table: the lines of self.pointing_file
    observation_table, \* add_observation_info: the content of the yaml file
    exposure_tab,   \* create_input_table: self.exposure_tab (<<>>: not set)
    written,        \* create_input_table: the files written so far, in order
    tpc,            \* create_input_table: the statement reached
    texc            \* create_input_table: the exception that ended the run

pvars == <<lines, propid, loc, act_counter, cols, pc, exc, pointing>>
dvars == <<obstab, finaltab, detectors, row, dpc>>
bvars == <<arg36, ret36, bpc>>
xvars == <<apt_xml_dict, expanded, expanded_table, xrow, xpc, xmltab>>
tvars == <<pointing_file, observation_table, exposure_tab, written, tpc, texc>>
vars == <<lines, propid, loc, act_counter, cols, pc, exc, pointing,
          obstab, finaltab, detectors, row, dpc, arg36, ret36, bpc,
          apt_xml_dict, expanded, expanded_table, xrow, xpc, xmltab,
          pointing_file, observation_table, exposure_tab, written, tpc, texc>>

\* texc when no exception has ended the run
NoException == [site |-> "", type |-> "none"]

(* ------------------------- get_pointing_info -------------------------- *)
\* the lists created at the top of the function, in the order in which the
\* accept branch appends to them
ColNames ==
    <<"activity_id", "observation_label", "observation_number", "visit_number",
      "visit_id", "visit_grp", "seq_id", "tar", "tile", "exp", "dith",
      "aperture", "targ1", "targ2", "ra", "dec", "basex", "basey", "dithx",
      "dithy", "v2", "v3", "idlx", "idly", "level", "type_str", "expar",
      "dkpar", "ddist", "observation_id">>

ColSet == {ColNames[k] : k \in 1..Len(ColNames)}

EmptyCols == [c \in ColSet |-> <<>>]

\* no local assigned yet; the field values are placeholders until then
NoLocals == [obslabel |-> "", skip |-> FALSE, obsnum |-> "", visitnum |-> "",
             bound |-> {}]

\* reading a local variable
Local(l, name) == IF name \in l.bound THEN Ok(l[name]) ELSE Raise("UnboundLocalError")

\* elements[k] (0-based)
Elem(elements, k) ==
    IF k < Len(elements) THEN Ok(elements[k + 1]) ELSE Raise("IndexError")

\* np.int(elements[k])
IntElem(elements, k) ==
    IF Elem(elements, k).exc # "none" THEN Elem(elements, k)
    ELSE ParseInt(Elem(elements, k).val)

\* np.float(elements[k])
FloatElem(elements, k) ==
    IF Elem(elements, k).exc # "none" THEN Elem(elements, k)
    ELSE ParseFloat(Elem(elements, k).val)

\* line 713: comments, empty lines and ===== separators are passed over
IsSkipped(line) == Ch(line, 1) = "#" \/ line = "\n" \/ Contains(line, "=====")

\* line 716: line.split()[0] == 'JWST'
HeaderTest(elements) ==
    IF elements = <<>> THEN Raise("IndexError") ELSE Ok(elements[1] = "JWST")

\* lines 717-722: the proposal id after a header line
HeaderPropid(elements, old) ==
    IF Elem(elements, 7).exc # "none" THEN Elem(elements, 7)
    ELSE IF ParseInt(elements[8]).exc = "none" THEN ParseInt(elements[8])
    ELSE Ok(old)

\* re.split(r' \(|\)', s)[0]: s up to the first " (" or ")"
ReSplitHead(s) ==
    LET a == Find(s, " (")
        b == Find(s, ")")
    IN  IF a = -1 /\ b = -1 THEN s
        ELSE IF a = -1 THEN Slice(s, 0, b)
        ELSE IF b = -1 THEN Slice(s, 0, a)
        ELSE Slice(s, 0, Min(a, b))

\* lines 733-741: the label of a "* " line
ExtractLabel(line) ==
    LET paren == RFind(line, "(")
        first == IF paren = -1 THEN Strip(SliceFrom(line, 2))
                 ELSE Strip(Slice(line, 2, paren - 1))
    IN  IF Contains(first, " (") /\ Contains(first, ")") THEN ReSplitHead(first)
        ELSE first

\* lines 732-747: a "* " line sets obslabel and skip
LabelStep(l, line) ==
    IF Slice(line, 0, 2) = "* "
    THEN [l EXCEPT !.obslabel = ExtractLabel(line), !.skip = FALSE,
                   !.bound = @ \cup {"obslabel", "skip"}]
    ELSE l

\* lines 749-755: a "**" line sets obsnum and visitnum; nothing here is
\* inside the try block
VisitStep(l, line, elements) ==
    IF Slice(line, 0, 2) # "**" THEN [exc |-> "none", loc |-> l]
    ELSE IF Elem(elements, 2).exc # "none" THEN [exc |-> "IndexError", loc |-> l]
    ELSE IF Len(SplitOn(elements[3], ":")) # 2 THEN [exc |-> "ValueError", loc |-> l]
    ELSE [exc |-> Local(l, "skip").exc,
          loc |-> [l EXCEPT !.obsnum = Zfill(SplitOn(elements[3], ":")[1], 3),
                            !.visitnum = Zfill(SplitOn(elements[3], ":")[2], 3),
                            !.bound = @ \cup {"obsnum", "visitnum"}]]

\* lines 768-772: the instrument codes looked for in elements[4]
InstrumentCodes == {"NRC", "NIS", "FGS", "NRS", "MIR"}

\* a variant of the aperture test that knows NIRCam only
HasInstrumentNircamOnly(ap) == Contains(ap, "NRC")

HasInstrument(ap) == \E c \in InstrumentCodes : Contains(ap, c)

\* lines 768-773: the acceptance test; both operands of & are evaluated
AcceptTest(elements) ==
    IF IntElem(elements, 1).exc # "none" THEN IntElem(elements, 1)
    ELSE IF Elem(elements, 4).exc # "none" THEN Elem(elements, 4)
    ELSE Ok(IntElem(elements, 1).val > 0 /\ HasInstrument(elements[5]))

\* lines 800-804
Aperture(ap) ==
    IF Contains(ap, "GRISMR_WFSS") THEN Replace(ap, "GRISMR_WFSS", "FULL")
    ELSE IF Contains(ap, "GRISMC_WFSS") THEN Replace(ap, "GRISMC_WFSS", "FULL")
    ELSE ap

\* line 783
VisitId(p, l) == Format05d(p) \o l.obsnum \o l.visitnum

\* a variant of the observation id with visit group and sequence id swapped
ObservationIdSwapped(vid, vgrp, seq, act) ==
    "V" \o vid \o "P" \o "00000000" \o seq \o vgrp \o act

\* line 831
ObservationId(vid, vgrp, seq, act) == "V" \o vid \o "P" \o "00000000" \o vgrp \o seq \o act

\* lines 777-831: the values appended by the accept branch, in statement
\* order, each with the exception its evaluation raises
Appends(l, elements, p, counter) ==
    LET act == base36encode(counter)
        vid == VisitId(p, l)
        str(k) == Elem(elements, k)
    IN  << Ok(act),                                  \* activity_id
           Local(l, "obslabel"),                     \* observation_label
           Local(l, "obsnum"),                       \* observation_number
           Local(l, "visitnum"),                     \* visit_number
           Ok(vid),                                  \* visit_id
           Ok("01"),                                 \* visit_grp
           Ok("1"),                                  \* seq_id
           IntElem(elements, 0),                     \* tar
           IntElem(elements, 1),                     \* tile
           Ok(Zfill(elements[3], 5)),                \* exp
           IntElem(elements, 3),                     \* dith
           Ok(Aperture(elements[5])),                \* aperture
           IntElem(elements, 5),                     \* targ1
           str(6), str(7), str(8), str(9), str(10),  \* targ2, ra, dec, basex, basey
           FloatElem(elements, 11),                  \* dithx
           FloatElem(elements, 12),                  \* dithy
           FloatElem(elements, 13),                  \* v2
           FloatElem(elements, 14),                  \* v3
           FloatElem(elements, 15),                  \* idlx
           FloatElem(elements, 16),                  \* idly
           str(17), str(18),                         \* level, type_str
           IntElem(elements, 19),                    \* expar
           IntElem(elements, 20),                    \* dkpar
           IF str(18).exc = "none" /\ str(18).val = "PARALLEL"
             THEN Ok("None") ELSE FloatElem(elements, 21),   \* ddist
           Ok(ObservationId(vid, "01", "1", act)) >> \* observation_id

\* the first statement of the accept branch that raises (0: none does)
FirstRaise(ops) ==
    IF \A k \in 1..Len(ops) : ops[k].exc = "none" THEN 0
    ELSE CHOOSE k \in 1..Len(ops) :
            /\ ops[k].exc # "none"
            /\ \A j \in 1..(k - 1) : ops[j].exc = "none"

\* the lists after the accept branch ran up to, not including, statement stop
\* (stop = 0: it ran to its end)
AppendUpTo(c, ops, stop) ==
    [name \in ColSet |->
        LET k == CHOOSE k \in 1..Len(ColNames) : ColNames[k] = name
        IN  IF stop = 0 \/ k < stop THEN Append(c[name], ops[k].val) ELSE c[name]]

\* a variant of the accept branch that moves the counter even when an append
\* raised
AcceptBranchCountingAlways(c, ops, counter) ==
    LET stop == FirstRaise(ops)
    IN  IF stop # 0
        THEN [exc |-> ops[stop].exc, cols |-> AppendUpTo(c, ops, stop),
              act_counter |-> counter + 1]
        ELSE [exc |-> "none", cols |-> AppendUpTo(c, ops, 0),
              act_counter |-> counter + 1]

\* lines 777-832: the accept branch with skip false. ops are its appends;
\* the counter moves only when the last of them is done
AcceptBranch(c, ops, counter) ==
    LET stop == FirstRaise(ops)
    IN  IF stop # 0
        THEN [exc |-> ops[stop].exc, cols |-> AppendUpTo(c, ops, stop),
              act_counter |-> counter]
        ELSE [exc |-> "none", cols |-> AppendUpTo(c, ops, 0),
              act_counter |-> counter + 1]

\* line 834: a ValueError is caught, anything else leaves the function
Caught(r) == IF r.exc = "ValueError" THEN [r EXCEPT !.exc = "none"] ELSE r

\* lines 757-836: the try block. exc is the exception that leaves it
TryBlock(l, elements, p, counter, c) ==
    LET test == AcceptTest(elements)
    IN  IF test.exc # "none"
          THEN Caught([exc |-> test.exc, cols |-> c, act_counter |-> counter])
        ELSE IF ~test.val
          THEN [exc |-> "none", cols |-> c, act_counter |-> counter]
        ELSE IF Local(l, "skip").exc # "none"
          THEN [exc |-> Local(l, "skip").exc, cols |-> c, act_counter |-> counter]
        ELSE IF l.skip
          THEN [exc |-> "none", cols |-> c, act_counter |-> counter + 1]
        ELSE \* (the set binds ops to a value, evaluated once)
             CHOOSE r \in {Caught(AcceptBranch(c, ops, counter)) :
                              ops \in {Appends(l, elements, p, counter)}} : TRUE

\* lines 838-845: the returned dictionary
PointingDict(c) ==
    [exposure |-> c.exp, dither |-> c.dith, aperture |-> c.aperture,
     targ1 |-> c.targ1, targ2 |-> c.targ2, ra |-> c.ra, dec |-> c.dec,
     basex |-> c.basex, basey |-> c.basey, dithx |-> c.dithx, dithy |-> c.dithy,
     v2 |-> c.v2, v3 |-> c.v3, idlx |-> c.idlx, idly |-> c.idly,
     obs_label |-> c.observation_label, obs_num |-> c.observation_number,
     visit_num |-> c.visit_number, act_id |-> c.activity_id,
     visit_id |-> c.visit_id, visit_group |-> c.visit_grp,
     sequence_id |-> c.seq_id, observation_id |-> c.observation_id]

(* ----------------------- the pointing files scanned ------------------- *)
\* a data line of 22 fields in which the fields that decide its fate vary
DataLine(tile, ap, targ1, type) ==
    "1 " \o tile \o " 1 1 " \o ap \o " " \o targ1
    \o " T 10.0 20.0 0 0 0.0 0.0 100.0 200.0 0.0 0.0 TARGET " \o type
    \o " 1 1 0.01\n"

\* one well-formed exposure line for each instrument code of line 768
GoodLines ==
    { DataLine("1", "NRC_A1_FULL", "1", "SCIENCE"),
      DataLine("1", "NIS_CEN", "1", "SCIENCE"),
      DataLine("1", "FGS1_FULL", "1", "SCIENCE"),
      DataLine("1", "NRS_FULL_MSA", "1", "SCIENCE"),
      DataLine("2", "MIRIM_FULL", "1", "PARALLEL") }

\* field[5] is no integer: the accept branch raises ValueError half way
HalfLine == DataLine("1", "NRCA5_GRISMR_WFSS", "x", "SCIENCE")

RejectedLines ==
    { DataLine("0", "NRC_A1_FULL", "1", "SCIENCE"),
      DataLine("1", "XYZ_FULL", "1", "SCIENCE"),
      "Tar Tile Exp Dith Aperture\n" }

PassedOver == { "# pointing\n", "\n", "=====\n" }

HeaderLines ==
    { "JWST Pointing Report for the Proposal Number 123456\n",
      "JWST Pointing Report for the Proposal Number (42)\n",
      "JWST Pointing Report\n" }

LabelLines == { "* Obs A\n", "* Obs B (NIRCAM) (Imaging)\n" }

VisitLines == { "** Visit 1:1\n", "** Visit 1000:2\n", "** 1 1:1\n", "** Visit 2\n" }

MalformedLines == { "  \n", "-----\n", "1 1\n" }

Lines ==
    GoodLines \cup {HalfLine} \cup RejectedLines \cup PassedOver \cup HeaderLines
    \cup LabelLines \cup VisitLines \cup MalformedLines

\* the second exposure of a NIRCam observation (Exp is 2)
SecondExposure ==
    "1 1 2 1 NRC_A1_FULL 1 T 10.0 20.0 0 0 0.0 0.0 100.0 200.0 0.0 0.0 TARGET SCIENCE 1 1 0.01\n"

\* a label line whose second token is a positive integer and whose fifth
\* token holds an instrument code
LabelLikeData == "* 1 of 2 NRC_A1_FULL\n"

\* the pointing files create_input_table is run on: one observation with
\* one visit and one or two exposures, and files that start with a header,
\* a comment or a blank line
PointingFiles ==
    LET obs == <<"* Obs A\n", "** Visit 1:1\n">>
        nrc == DataLine("1", "NRC_A1_FULL", "1", "SCIENCE")
        nis == DataLine("1", "NIS_CEN", "1", "SCIENCE")
        fgs == DataLine("1", "FGS1_FULL", "1", "SCIENCE")
        nrs == DataLine("1", "NRS_FULL_MSA", "1", "SCIENCE")
        mir == DataLine("2", "MIRIM_FULL", "1", "PARALLEL")
    IN  { obs \o <<nrc>>, obs \o <<nrc, SecondExposure>>, obs \o <<nrc, nis>>,
          obs \o <<nis>>, obs \o <<nis, nis>>, obs \o <<nis, fgs>>,
          obs \o <<nis, mir>>, obs \o <<nis, nrs>>, obs \o <<fgs>>,
          obs \o <<HalfLine>>,
          <<"JWST Pointing Report for the Proposal Number 123456\n">> \o obs \o <<nrc>>,
          <<"# pointing\n">> \o obs \o <<nis>>,
          <<"  \n">> \o obs \o <<nrc>>,
          <<"* Obs B (NIRCAM) (Imaging)\n", "** Visit 1:1\n", nrc>>,
          obs \o <<LabelLikeData, nrc>> }

\* what lines 713, 716 and 729 compute from the text of a line alone, for
\* each line of the vocabulary (@@ makes the table an explicit function)
Scanned ==
    [l \in Lines \cup {SecondExposure, LabelLikeData} |->
        [skipped |-> IsSkipped(l), elements |-> Split(l)]] @@ <<>>

Skipped(line) == Scanned[line].skipped

Tokens(line) == Scanned[line].elements

\* the propid argument: the default 0, or XML's ProposalID
PropidArgs == {0, 7}

(* ------------------------------ actions ------------------------------- *)
PInit ==
    /\ lines = <<>>
    /\ propid \in PropidArgs
    /\ loc = NoLocals
    /\ act_counter = 1
    /\ cols = EmptyCols
    /\ pc = "scan"
    /\ exc = "none"
    /\ pointing = <<>>

\* the function is left by an exception: nothing is returned
Propagate(e) ==
    /\ pc' = "raised"
    /\ exc' = e

\* line 713-714: continue
SkipLine(line) ==
    /\ pc = "scan" /\ Len(lines) < MaxLines
    /\ Skipped(line)
    /\ lines' = Append(lines, line)
    /\ UNCHANGED <<propid, loc, act_counter, cols, pc, exc, pointing>>

\* line 716 raises: a line of whitespace has no first token
SplitRaises(line) ==
    /\ pc = "scan" /\ Len(lines) < MaxLines
    /\ ~Skipped(line)
    /\ HeaderTest(Tokens(line)).exc # "none"
    /\ lines' = Append(lines, line)
    /\ Propagate(HeaderTest(Tokens(line)).exc)
    /\ UNCHANGED <<propid, loc, act_counter, cols, pointing>>

\* lines 716-725: the header line
HeaderLine(line) ==
    /\ pc = "scan" /\ Len(lines) < MaxLines
    /\ ~Skipped(line)
    /\ HeaderTest(Tokens(line)) = Ok(TRUE)
    /\ lines' = Append(lines, line)
    /\ \E new \in {HeaderPropid(Tokens(line), propid)} :
          IF new.exc = "none"
          THEN propid' = new.val /\ UNCHANGED <<pc, exc>>
          ELSE Propagate(new.exc) /\ UNCHANGED propid
    /\ UNCHANGED <<loc, act_counter, cols, pointing>>

\* lines 728-836: label lines, visit lines and candidate data lines
BodyLine(line) ==
    /\ pc = "scan" /\ Len(lines) < MaxLines
    /\ ~Skipped(line)
    /\ HeaderTest(Tokens(line)) = Ok(FALSE)
    /\ Len(line) > 1
    /\ lines' = Append(lines, line)
    /\ \E elements \in {Tokens(line)} :
       \E visit \in {VisitStep(LabelStep(loc, line), line, elements)} :
          /\ loc' = visit.loc
          /\ IF visit.exc # "none"
             THEN Propagate(visit.exc) /\ UNCHANGED <<act_counter, cols>>
             ELSE \E try \in {TryBlock(visit.loc, elements, propid, act_counter, cols)} :
                     /\ cols' = try.cols
                     /\ act_counter' = try.act_counter
                     /\ IF try.exc # "none" THEN Propagate(try.exc)
                        ELSE UNCHANGED <<pc, exc>>
    /\ UNCHANGED <<propid, pointing>>

\* lines 838-846: the end of the file
Return ==
    /\ pc = "scan"
    /\ pointing' = PointingDict(cols)
    /\ pc' = "returned"
    /\ UNCHANGED <<lines, propid, loc, act_counter, cols, exc>>

(* ------------------------ expand_for_detectors ------------------------ *)
\* module designations handed to expand_for_detectors
Modules == {"ALL", "A", "B", "A3", "NRCB4", "SUB96DHSPILA", "SUB96DHSPILB",
            "DHSPIL", "A1"}

\* the columns of the input tables: Module, PrimaryDithers and one more
ObsKeys == {"Module", "PrimaryDithers", "exposure"}

\* a table of n rows with the given modules; exposure numbers its rows
ObsTable(mods) ==
    [key \in ObsKeys |->
        IF key = "Module" THEN mods
        ELSE IF key = "PrimaryDithers" THEN [k \in 1..Len(mods) |-> "1"]
        ELSE [k \in 1..Len(mods) |-> Zfill(NatToStr(k), 5)]]

RECURSIVE SeqsUpTo(_, _)
SeqsUpTo(S, n) ==
    IF n = 0 THEN {<<>>}
    ELSE SeqsUpTo(S, n - 1)
         \cup {Append(q, x) : q \in {t \in SeqsUpTo(S, n - 1) : Len(t) = n - 1}, x \in S}

ObsTables == {ObsTable(mods) : mods \in SeqsUpTo(Modules, MaxRows)}

\* lines 497-515: the detectors of a module designation. old is the value the
\* local detectors has from the row before (<<>>: not assigned yet); at line
\* 513 the ValueError is built but not raised, so old is what stays
DetectorsOf(module, old) ==
    IF module = "ALL"
      THEN Ok(<<"A1", "A2", "A3", "A4", "A5", "B1", "B2", "B3", "B4", "B5">>)
    ELSE IF module = "A" THEN Ok(<<"A1", "A2", "A3", "A4", "A5">>)
    ELSE IF module = "B" THEN Ok(<<"B1", "B2", "B3", "B4", "B5">>)
    ELSE IF Contains(module, "A3") THEN Ok(<<"A3">>)
    ELSE IF Contains(module, "B4") THEN Ok(<<"B4">>)
    ELSE IF Contains(module, "DHSPIL")
      THEN IF Ch(module, Len(module)) = "A" THEN Ok(<<"A3">>)
           ELSE IF Ch(module, Len(module)) = "B" THEN Ok(<<"B4">>)
           ELSE IF old = <<>> THEN Raise("UnboundLocalError")
           ELSE Ok(old)
    ELSE Raise("ValueError")

\* [x] * n
RECURSIVE Times(_, _)
Times(x, n) == IF n <= 0 THEN <<>> ELSE <<x>> \o Times(x, n - 1)

\* a variant of the extension that copies the row once, not once per detector
ExtendRowOnce(final, tab, k, dets) ==
    [key \in DOMAIN final |->
        IF key \in DOMAIN tab THEN final[key] \o <<tab[key][k]>>
        ELSE final[key] \o dets]

\* lines 517-520: row k of tab goes n_detectors times into every column,
\* and the detector names into the detector column
ExtendRow(final, tab, k, dets) ==
    [key \in DOMAIN final |->
        IF key \in DOMAIN tab THEN final[key] \o Times(tab[key][k], Len(dets))
        ELSE final[key] \o dets]

\* lines 496-518: the detectors of row k of tab, or the exception the pass
\* of the loop for that row raises (a column too short for the row gives
\* IndexError, at line 496 or at line 519)
RowDetectors(tab, k, old) ==
    IF Len(tab["Module"]) < k THEN Raise("IndexError")
    ELSE IF DetectorsOf(tab["Module"][k], old).exc # "none"
      THEN DetectorsOf(tab["Module"][k], old)
    ELSE IF \E key \in DOMAIN tab : Len(tab[key]) < k THEN Raise("IndexError")
    ELSE DetectorsOf(tab["Module"][k], old)

\* lines 488-493: the empty output table
DInit ==
    /\ obstab \in ObsTables
    /\ finaltab = [key \in ObsKeys \cup {"detector"} |-> <<>>]
    /\ detectors = <<>>
    /\ row = 0
    /\ dpc = "loop"

\* lines 494-520: one pass of the loop over the rows
LoopRow ==
    /\ dpc = "loop"
    /\ row < Len(obstab["PrimaryDithers"])
    /\ \E found \in {RowDetectors(obstab, row + 1, detectors)} :
          IF found.exc = "none"
          THEN /\ detectors' = found.val
               /\ finaltab' = ExtendRow(finaltab, obstab, row + 1, found.val)
               /\ row' = row + 1
               /\ UNCHANGED dpc
          ELSE /\ dpc' = "raised"
               /\ UNCHANGED <<detectors, finaltab, row>>
    /\ UNCHANGED obstab

\* line 522
DReturn ==
    /\ dpc = "loop"
    /\ row = Len(obstab["PrimaryDithers"])
    /\ dpc' = "returned"
    /\ UNCHANGED <<obstab, finaltab, detectors, row>>

(* ---------------------------- base36encode ---------------------------- *)
\* the call base36encode(arg36)
BInit ==
    /\ arg36 \in 0..MaxInteger
    /\ ret36 = ""
    /\ bpc = "call"

\* lines 345-351
Encode ==
    /\ bpc = "call"
    /\ ret36' = base36encode(arg36)
    /\ bpc' = "returned"
    /\ UNCHANGED arg36

(* ------------- the dither step and expand_for_dithers ----------------- *)
\* the columns of the table read from the XML file that the program reads,
\* and ObservationID for the columns it only carries along
XmlKeys ==
    {"ProposalID", "ObservationID", "Instrument", "Module", "PrimaryDithers",
     "SubpixelPositions", "ImageDithers", "CoordinatedParallel",
     "ParallelInstrument", "ShortFilter", "LongFilter"}

\* one row of that table (PrimaryDithers and SubpixelPositions are strings,
\* ImageDithers an integer, ParallelInstrument a boolean)
XmlRow(instrument, module, primary, subpix, image, coordinated, parallel) ==
    [ProposalID |-> "42", ObservationID |-> "", Instrument |-> instrument,
     Module |-> module, PrimaryDithers |-> primary,
     SubpixelPositions |-> subpix, ImageDithers |-> image,
     CoordinatedParallel |-> coordinated, ParallelInstrument |-> parallel,
     ShortFilter |-> "F200W", LongFilter |-> "F444W"]

\* the dictionary of columns of a sequence of rows, ObservationID numbering
\* the rows from 1
XmlTable(entries) ==
    [key \in XmlKeys |->
        [at \in 1..Len(entries) |->
            IF key = "ObservationID" THEN NatToStr(at) ELSE entries[at][key]]]

\* the rows the dither step is tried on
DitherRows ==
    {XmlRow("NIRCAM", "ALL", "1", "NONE", 1, "false", FALSE),
     XmlRow("NIRCAM", "ALL", "2", "NONE", 1, "false", FALSE),
     XmlRow("NIRCAM", "ALL", "12", "NONE", 1, "false", FALSE),
     XmlRow("NIRCAM", "ALL", "1", "4-Point", 1, "false", FALSE),
     XmlRow("NIRCAM", "ALL", "0", "9-Point", 1, "false", FALSE),
     XmlRow("NIRISS", "None", "1", "NONE", 2, "false", FALSE),
     XmlRow("NIRCAM", "ALL", "1", "NONE", 2, "true", FALSE),
     XmlRow("NIRISS", "None", "1", "NONE", 1, "true", TRUE),
     XmlRow("NIRISS", "None", "1", "NONE", 1, "True", FALSE)}

DitherTables == {XmlTable(entries) : entries \in SeqsUpTo(DitherRows, MaxEntries)}

\* lines 406, 551: np.all(np.array(column).astype(int) == 1), for a column
\* of digit strings
AllOneStr(column) == \A at \in 1..Len(column) : ParseInt(column[at]).val = 1

\* lines 406, 574: the same for a column of integers
AllOneInt(column) == \A at \in 1..Len(column) : column[at] = 1

\* lines 558-564: subpix[0][0] after the three tests
SubpixFirst(subpix) ==
    IF subpix \in {"0", "NONE"} THEN Ok(1)
    ELSE IF subpix = "4-Point" THEN Ok(4)
    ELSE IF subpix = "9-Point" THEN Ok(9)
    ELSE IF subpix = "" THEN Raise("IndexError")
    ELSE ParseInt(Ch(subpix, 1))

\* lines 566-568: primary[0] as an integer: of a string, its first character
PrimaryFirst(primary) ==
    IF primary = "0" THEN Ok(1)
    ELSE IF primary = "" THEN Raise("IndexError")
    ELSE ParseInt(Ch(primary, 1))

\* line 569
Reps(t, at) ==
    LET sub == SubpixFirst(t["SubpixelPositions"][at])
        prim == PrimaryFirst(t["PrimaryDithers"][at])
    IN  IF sub.exc # "none" THEN sub
        ELSE IF prim.exc # "none" THEN prim
        ELSE Ok(sub.val * prim.val)

\* lines 570-572: row at of t goes count times into every column
AppendReps(into, t, at, count) ==
    [key \in DOMAIN into |-> into[key] \o Times(t[key][at], count)]

\* lines 578-579: the astropy table of a dictionary, one record per row, with
\* the added column row
TableOf(t) ==
    [at \in 1..Len(t["ImageDithers"]) |->
        [key \in DOMAIN t \cup {"row"} |->
            IF key = "row" THEN at - 1 ELSE t[key][at]]]

RECURSIVE Stack(_, _)
Stack(q, count) == IF count <= 0 THEN <<>> ELSE q \o Stack(q, count - 1)

\* a variant of the block of a prime row that repeats row by row, not block
\* by block
DitherBlockRowWise(tableRows, at) ==
    LET this == tableRows[at]
        count == this["ImageDithers"]
    IN  IF this["CoordinatedParallel"] = "true" /\ ~this["ParallelInstrument"]
        THEN Ok(Stack(<<this>>, Max(count, 1))
                \o (IF at < Len(tableRows)
                    THEN Stack(<<tableRows[at + 1]>>, Max(count, 1)) ELSE <<>>))
        ELSE IF this["CoordinatedParallel"] = "false"
        THEN IF count < 1 THEN Raise("ValueError") ELSE Ok(Stack(<<this>>, count))
        ELSE Ok(<<>>)

\* lines 583-596: the rows that row at adds to expanded_table (vstack of an
\* empty list raises ValueError)
DitherBlock(tableRows, at) ==
    LET this == tableRows[at]
        count == this["ImageDithers"]
        pair == SubSeq(tableRows, at, Min(at + 1, Len(tableRows)))
    IN  IF this["CoordinatedParallel"] = "true" /\ ~this["ParallelInstrument"]
        THEN Ok(IF count > 1 THEN Stack(pair, count) ELSE pair)
        ELSE IF this["CoordinatedParallel"] = "false"
        THEN IF count < 1 THEN Raise("ValueError") ELSE Ok(Stack(<<this>>, count))
        ELSE Ok(<<>>)

\* lines 604-606: the dictionary of the columns of a table
ColumnsOf(tableRows) ==
    [key \in DOMAIN tableRows[1] |->
        [at \in 1..Len(tableRows) |-> tableRows[at][key]]]

\* a variant of the test of line 406 that hands every table on to
\* expand_for_dithers
NoDithersNever(t) == FALSE

\* line 406: no dithers are included
NoDithers(t) == AllOneStr(t["PrimaryDithers"]) /\ AllOneInt(t["ImageDithers"])

\* the table read from the XML file
XInit ==
    /\ apt_xml_dict \in DitherTables
    /\ expanded = <<>>
    /\ expanded_table = <<>>
    /\ xrow = 0
    /\ xpc = "stage"
    /\ xmltab = <<>>

\* lines 406-408: skip step if no dithers are included
SkipDithers ==
    /\ xpc = "stage"
    /\ NoDithers(apt_xml_dict)
    /\ xmltab' = apt_xml_dict
    /\ xpc' = "returned"
    /\ UNCHANGED <<apt_xml_dict, expanded, expanded_table, xrow>>

\* lines 410, 543-545: the call of expand_for_dithers
CallExpand ==
    /\ xpc = "stage"
    /\ ~NoDithers(apt_xml_dict)
    /\ expanded' = [key \in DOMAIN apt_xml_dict |-> <<>>]
    /\ xrow' = 0
    /\ xpc' = "primary"
    /\ UNCHANGED <<apt_xml_dict, expanded_table, xmltab>>

\* lines 553-572: one pass of the primary-dither loop
PrimaryRow ==
    /\ xpc = "primary"
    /\ ~AllOneStr(apt_xml_dict["PrimaryDithers"])
    /\ xrow < Len(apt_xml_dict["PrimaryDithers"])
    /\ \E count \in {Reps(apt_xml_dict, xrow + 1)} :
          IF count.exc = "none"
          THEN /\ expanded' = AppendReps(expanded, apt_xml_dict, xrow + 1, count.val)
               /\ xrow' = xrow + 1
               /\ UNCHANGED xpc
          ELSE /\ xpc' = "raised"
               /\ UNCHANGED <<expanded, xrow>>
    /\ UNCHANGED <<apt_xml_dict, expanded_table, xmltab>>

\* lines 551, 574-580: the primary-dither pass is over or not taken
PrimaryDone ==
    /\ xpc = "primary"
    /\ \/ AllOneStr(apt_xml_dict["PrimaryDithers"])
       \/ xrow = Len(apt_xml_dict["PrimaryDithers"])
    /\ expanded_table' = <<>>
    /\ xrow' = 0
    /\ xpc' = "image"
    /\ UNCHANGED <<apt_xml_dict, expanded, xmltab>>

\* lines 582-600: one pass of the image-dither loop
ImageRow ==
    /\ xpc = "image"
    /\ ~AllOneInt(apt_xml_dict["ImageDithers"])
    /\ xrow < Len(apt_xml_dict["ImageDithers"])
    /\ \E added \in {DitherBlock(TableOf(apt_xml_dict), xrow + 1)} :
          IF added.exc = "none"
          THEN /\ expanded_table' = expanded_table \o added.val
               /\ xrow' = xrow + 1
               /\ UNCHANGED xpc
          ELSE /\ xpc' = "raised"
               /\ UNCHANGED <<expanded_table, xrow>>
    /\ UNCHANGED <<apt_xml_dict, expanded, xmltab>>

\* a variant of the result that hands back the rows of the primary-dither
\* pass in place of those of the image-dither pass
ExpandReturnPrimaryRows ==
    /\ xpc = "image"
    /\ \/ AllOneInt(apt_xml_dict["ImageDithers"])
       \/ xrow = Len(apt_xml_dict["ImageDithers"])
    /\ xmltab' = expanded
    /\ xpc' = "returned"
    /\ UNCHANGED <<apt_xml_dict, expanded, expanded_table, xrow>>

\* lines 604-606, 621, 410: the result; expanded_table None has no colnames
ExpandReturn ==
    /\ xpc = "image"
    /\ \/ AllOneInt(apt_xml_dict["ImageDithers"])
       \/ xrow = Len(apt_xml_dict["ImageDithers"])
    /\ IF AllOneInt(apt_xml_dict["ImageDithers"])
       THEN /\ xmltab' = expanded
            /\ xpc' = "returned"
            /\ UNCHANGED expanded
       ELSE IF expanded_table = <<>>
       THEN /\ xpc' = "raised"
            /\ UNCHANGED <<expanded, xmltab>>
       ELSE /\ expanded' = ColumnsOf(expanded_table)
            /\ xmltab' = ColumnsOf(expanded_table)
            /\ xpc' = "returned"
    /\ UNCHANGED <<apt_xml_dict, expanded_table, xrow>>

(* ------------------------ add_observation_info ------------------------ *)
\* str.lower()
LowerCh(c) ==
    IF Find("ABCDEFGHIJKLMNOPQRSTUVWXYZ", c) < 0 THEN c
    ELSE Ch("abcdefghijklmnopqrstuvwxyz", Find("ABCDEFGHIJKLMNOPQRSTUVWXYZ", c) + 1)

RECURSIVE Lower(_)
Lower(s) == IF s = "" THEN "" ELSE LowerCh(Ch(s, 1)) \o Lower(Tail(s))

\* the directory the run is started in
WorkingDirectory == "/work"

\* lines 640-659: full_path (the paths of the lists hold no variables)
full_path(in_path) ==
    IF Lower(in_path) = "none" THEN in_path
    ELSE IF Ch(in_path, 1) = "/" THEN in_path
    ELSE WorkingDirectory \o "/" \o in_path

\* a yaml date, and date.strftime('%Y-%m-%d')
Date(year, month, day) == [year |-> year, month |-> month, day |-> day]

Strftime(date) ==
    Zfill(NatToStr(date.year), 4) \o "-" \o Zfill(NatToStr(date.month), 2)
    \o "-" \o Zfill(NatToStr(date.day), 2)

\* d[name] of a dictionary with string keys
Item(d, name) == IF name \in DOMAIN d THEN Ok(d[name]) ELSE Raise("KeyError")

\* line 135
OBSERVATION_LIST_FIELDS ==
    <<"Name", "Date", "PAV3", "Filter", "PointSourceCatalog", "GalaxyCatalog",
      "ExtendedCatalog", "ExtendedScale", "ExtendedCenter", "MovingTargetList",
      "MovingTargetSersic", "MovingTargetExtended",
      "MovingTargetConvolveExtended", "MovingTargetToTrack", "BackgroundRate">>

\* str(value) of the value a yaml list holds under a field: PAV3 is a
\* number, MovingTargetConvolveExtended a boolean, every other one a string
StrOf(field, value) ==
    IF field = "PAV3" THEN NatToStr(value)
    ELSE IF field = "MovingTargetConvolveExtended"
         THEN IF value THEN "True" ELSE "False"
    ELSE value

\* lines 207-228: the columns of the NIRCam case in statement order, with
\* the channel and field each is read from and whether full_path is applied
NircamParams ==
    LET of(channel, prefix) ==
          << <<prefix \o "_ptsrc", channel, "PointSourceCatalog", TRUE>>,
             <<prefix \o "_galcat", channel, "GalaxyCatalog", TRUE>>,
             <<prefix \o "_ext", channel, "ExtendedCatalog", TRUE>>,
             <<prefix \o "_extscl", channel, "ExtendedScale", FALSE>>,
             <<prefix \o "_extcent", channel, "ExtendedCenter", FALSE>>,
             <<prefix \o "_movptsrc", channel, "MovingTargetList", TRUE>>,
             <<prefix \o "_movgal", channel, "MovingTargetSersic", TRUE>>,
             <<prefix \o "_movext", channel, "MovingTargetExtended", TRUE>>,
             <<prefix \o "_movconv", channel, "MovingTargetConvolveExtended", FALSE>>,
             <<prefix \o "_solarsys", channel, "MovingTargetToTrack", TRUE>>,
             <<prefix \o "_bkgd", channel, "BackgroundRate", FALSE>> >>
    IN  of("SW", "sw") \o of("LW", "lw")

\* lines 127-133: onames
Onames(list) == [k \in 1..Len(list) |-> list[k].value["Name"]]

\* lines 185, 278, 303: np.where(obs == onames)[0]
Matches(list, obs) == {k \in 1..Len(list) : Onames(list)[k] = obs}

\* match[0]
FirstMatch(list, obs) ==
    CHOOSE k \in Matches(list, obs) : \A j \in Matches(list, obs) : k <= j

\* self.obstab[name]
Observation(list, name) ==
    IF \E k \in 1..Len(list) : list[k].key = name
    THEN Ok((CHOOSE k \in 1..Len(list) : list[k].key = name))
    ELSE Raise("KeyError")

\* lines 197-204: the part of the matched entry the parameters are read
\* from: the entry, or its FilterConfig<n> for exposure n when Observation1
\* has FilterConfig keys
FilterConfig(list, obslist, exp) ==
    IF Observation(list, "Observation1").exc # "none" THEN Raise("KeyError")
    ELSE IF ~\E name \in DOMAIN list[Observation(list, "Observation1").val].value :
               Contains(name, "FilterConfig")
      THEN Ok(obslist)
    ELSE IF ParseInt(SliceFrom(exp, Max(Len(exp) - 2, 0))).exc # "none"
      THEN Raise("ValueError")
    ELSE Item(obslist,
              "FilterConfig" \o NatToStr(ParseInt(SliceFrom(exp, Max(Len(exp) - 2, 0))).val))

\* obslist[channel][field], through full_path where the code applies it
Param(obslist, param) ==
    IF Item(obslist, param[2]).exc # "none" THEN Raise("KeyError")
    ELSE IF Item(obslist[param[2]], param[3]).exc # "none" THEN Raise("KeyError")
    ELSE IF param[4] THEN Ok(full_path(obslist[param[2]][param[3]]))
    ELSE Ok(obslist[param[2]][param[3]])

\* lines 231-238: the filter a channel of the entry gives, as the list of
\* what is appended (any exception is passed over)
FilterGiven(obslist, channel) ==
    IF channel \in DOMAIN obslist /\ "Filter" \in DOMAIN obslist[channel]
    THEN <<obslist[channel]["Filter"]>>
    ELSE <<>>

\* lines 185-238: the pass of the NIRCam loop for one row: what it appends,
\* or the exception that ends the function
NircamPass(list, exp, obs) ==
    IF Matches(list, obs) = {} THEN Raise("ValueError")
    ELSE LET obslist == list[FirstMatch(list, obs)].value
         IN  IF Item(obslist, "Date").exc # "none" THEN Raise("KeyError")
             ELSE IF Item(obslist, "PAV3").exc # "none" THEN Raise("KeyError")
             ELSE IF FilterConfig(list, obslist, exp).exc # "none"
               THEN Raise(FilterConfig(list, obslist, exp).exc)
             ELSE LET config == FilterConfig(list, obslist, exp).val
                      ops == [k \in 1..Len(NircamParams) |->
                                 Param(config, NircamParams[k])] @@ <<>>
                  IN  IF FirstRaise(ops) # 0 THEN Raise(ops[FirstRaise(ops)].exc)
                      ELSE Ok([obs_start |-> Strftime(obslist["Date"]),
                               obs_pav3 |-> obslist["PAV3"],
                               params |-> [k \in 1..Len(ops) |-> ops[k].val],
                               obs_sw_filt |-> FilterGiven(config, "SW"),
                               obs_lw_filt |-> FilterGiven(config, "LW")])

\* lines 277-292, 302-320: the pass of the NIRISS loop for one row
NirissPass(list, obs) ==
    IF Matches(list, obs) = {} THEN Raise("ValueError")
    ELSE LET obslist == list[FirstMatch(list, obs)].value
         IN  IF Item(obslist, "Date").exc # "none" THEN Raise("KeyError")
             ELSE IF \E k \in 1..Len(OBSERVATION_LIST_FIELDS) :
                        OBSERVATION_LIST_FIELDS[k] \notin DOMAIN obslist
               THEN Raise("KeyError")
             ELSE Ok([obs_start |-> Strftime(obslist["Date"]),
                      fields |-> [k \in 1..Len(OBSERVATION_LIST_FIELDS) |->
                                    IF OBSERVATION_LIST_FIELDS[k] = "Date"
                                    THEN Strftime(obslist["Date"])
                                    ELSE StrOf(OBSERVATION_LIST_FIELDS[k],
                                               obslist[OBSERVATION_LIST_FIELDS[k]])]])

\* zip(intab['exposure'], intab['obs_label']) stops with the shorter list
Zipped(intab) == Min(Len(intab["exposure"]), Len(intab["obs_label"]))

\* the passes of a loop over the rows from row k on, after the passes done:
\* the first exception ends them
RECURSIVE Passes(_, _, _, _, _)
Passes(list, intab, nircam, k, done) ==
    IF k > Zipped(intab) THEN Ok(done)
    ELSE LET pass == IF nircam
                     THEN NircamPass(list, intab["exposure"][k], intab["obs_label"][k])
                     ELSE NirissPass(list, intab["obs_label"][k])
         IN  IF pass.exc # "none" THEN Raise(pass.exc)
             ELSE Passes(list, intab, nircam, k + 1, Append(done, pass.val))

\* the concatenation of the lists of a list
RECURSIVE Flat(_)
Flat(q) == IF q = <<>> THEN <<>> ELSE Head(q) \o Flat(Tail(q))

\* line 137
unique_instrument_names(intab) ==
    {Lower(intab["Instrument"][k]) : k \in 1..Len(intab["Instrument"])}

\* lines 267-270: the filters read from APT are replaced by the list of the
\* filters given, when there is one at all
Override(column, given) == IF Len(Flat(given)) > 0 THEN Flat(given) ELSE column

\* lines 241-270, 328: the table of the NIRCam case
NircamTable(intab, done) ==
    [name \in {NircamParams[k][1] : k \in 1..Len(NircamParams)} |->
        LET k == CHOOSE k \in 1..Len(NircamParams) : NircamParams[k][1] = name
        IN  [r \in 1..Len(done) |-> done[r].params[k]]]
    @@ [pav3 |-> [r \in 1..Len(done) |-> done[r].obs_pav3],
        ShortFilter |-> Override(intab["ShortFilter"],
                                 [r \in 1..Len(done) |-> done[r].obs_sw_filt]),
        LongFilter |-> Override(intab["LongFilter"],
                                [r \in 1..Len(done) |-> done[r].obs_lw_filt]),
        epoch_start_date |-> [r \in 1..Len(done) |-> done[r].obs_start]]
    @@ intab

\* lines 274-292, 298-320, 328: the table of the NIRISS case
NirissTable(intab, done) ==
    [name \in {OBSERVATION_LIST_FIELDS[k] : k \in 1..Len(OBSERVATION_LIST_FIELDS)} |->
        LET k == CHOOSE k \in 1..Len(OBSERVATION_LIST_FIELDS) :
                    OBSERVATION_LIST_FIELDS[k] = name
        IN  [r \in 1..Len(done) |-> done[r].fields[k]]]
    @@ [epoch_start_date |-> [r \in 1..Len(done) |-> done[r].obs_start]]
    @@ intab

\* lines 107-329: the table returned for intab and the yaml list, or the
\* exception raised
add_observation_info(intab, list) ==
    LET names == unique_instrument_names(intab)
        table(nircam) ==
            LET done == Passes(list, intab, nircam, 1, <<>>)
            IN  IF done.exc # "none" THEN Raise(done.exc)
                ELSE IF nircam THEN Ok(NircamTable(intab, done.val))
                ELSE Ok(NirissTable(intab, done.val))
    IN  IF Cardinality(names) = 1
        THEN IF names = {"nircam"} THEN table(TRUE)
             ELSE IF names = {"niriss"} THEN table(FALSE)
             ELSE Ok([epoch_start_date |-> <<>>] @@ intab)
        ELSE IF "niriss" \in names /\ names \cap {"fgs", "miri", "nirspec"} # {}
             THEN table(FALSE)
             ELSE Raise("NotImplementedError")

(* -------------------------- create_input_table ------------------------ *)
\* the parameters of one channel of a NIRCam entry of the yaml list
Channel(catalog) ==
    [PointSourceCatalog |-> catalog, GalaxyCatalog |-> "None",
     ExtendedCatalog |-> "None", ExtendedScale |-> "1.0",
     ExtendedCenter |-> "1024,1024", MovingTargetList |-> "None",
     MovingTargetSersic |-> "None", MovingTargetExtended |-> "None",
     MovingTargetConvolveExtended |-> TRUE, MovingTargetToTrack |-> "None",
     BackgroundRate |-> "0.5"]

\* the same with a filter given
ChannelWithFilter(catalog, filter) == [Filter |-> filter] @@ Channel(catalog)

\* the head of an entry
Epoch(name) == [Name |-> name, Date |-> Date(2022, 7, 1), PAV3 |-> 0]

\* an entry of a list for NIRISS, FGS, MIRI and NIRSpec observations
FlatEntry(name) ==
    Epoch(name) @@ [Filter |-> "F150W"] @@ Channel("niriss_ptsrc.cat")

\* the yaml lists create_input_table is run with: NIRCam entries with and
\* without filters, one whose second filter configuration alone gives no
\* filter, a flat entry, and a flat entry under another name
ObservationLists ==
    << << [key |-> "Observation1",
           value |-> Epoch("Obs A")
                     @@ [SW |-> ChannelWithFilter("sw_ptsrc.cat", "F090W"),
                         LW |-> ChannelWithFilter("None", "F356W")]] >>,
       << [key |-> "Observation1",
           value |-> Epoch("Obs A")
                     @@ [SW |-> Channel("sw_ptsrc.cat"), LW |-> Channel("None")]] >>,
       << [key |-> "Observation1",
           value |-> Epoch("Obs A")
                     @@ [FilterConfig1 |->
                            [SW |-> ChannelWithFilter("sw_ptsrc.cat", "F090W"),
                             LW |-> ChannelWithFilter("None", "F356W")],
                         FilterConfig2 |->
                            [SW |-> Channel("sw_ptsrc.cat"),
                             LW |-> Channel("None")]]] >>,
       << [key |-> "Observation1", value |-> FlatEntry("Obs A")] >>,
       << [key |-> "Observation1", value |-> FlatEntry("Obs Z")] >> >>

\* the tables read from the XML file that create_input_table is run on:
\* one or two exposures of one or two instruments, with and without dithers
InputTables ==
    LET exposure(instrument, module) ==
            XmlRow(instrument, module, "1", "NONE", 1, "false", FALSE)
        nircam == exposure("NIRCAM", "ALL")
        niriss == exposure("NIRISS", "None")
    IN  { XmlTable(entries) : entries \in
            { <<>>, <<nircam>>, <<nircam, nircam>>, <<nircam, niriss>>,
              <<exposure("NIRCAM", "A1")>>,
              <<niriss>>, <<niriss, niriss>>,
              <<niriss, exposure("FGS", "None")>>,
              <<niriss, exposure("MIRI", "None")>>,
              <<niriss, exposure("NIRSPEC", "None")>>,
              <<exposure("FGS", "None")>>,
              <<XmlRow("NIRCAM", "ALL", "2", "NONE", 1, "false", FALSE)>>,
              <<XmlRow("NIRISS", "None", "1", "NONE", 2, "false", FALSE)>>,
              <<XmlRow("NIRISS", "None", "1", "NONE", 2, "True", FALSE)>> } }

\* lines 373-392: the attributes of the object when create_input_table starts
TInit ==
    /\ apt_xml_dict \in InputTables
    /\ pointing_file \in PointingFiles
    /\ \E f \in 1..Len(ObservationLists) : observation_table = ObservationLists[f]
    /\ exposure_tab = <<>>
    /\ written = <<>>
    /\ tpc = "dithers"
    /\ texc = NoException
    /\ expanded = <<>>
    /\ expanded_table = <<>>
    /\ xrow = 0
    /\ xpc = "stage"
    /\ xmltab = <<>>

\* an exception leaves create_input_table
Abort(site, type) ==
    /\ tpc' = "raised"
    /\ texc' = [site |-> site, type |-> type]

\* line 410: expand_for_dithers raised (on the tables above it does when
\* every row is passed over: expanded_table is None at line 605)
DithersRaised ==
    /\ tpc = "dithers"
    /\ xpc = "raised"
    /\ Abort("expand_for_dithers", "AttributeError")
    /\ UNCHANGED <<pointing_file, observation_table, exposure_tab, written>>

\* lines 414, 678-710: xmltab['ProposalID'][0] and the call of
\* get_pointing_info (the string of the XML table becomes the integer that
\* line 782 makes of it)
CallPointing ==
    /\ tpc = "dithers"
    /\ xpc = "returned"
    /\ IF Len(xmltab["ProposalID"]) = 0
       THEN /\ Abort("create_input_table", "IndexError")
            /\ UNCHANGED pvars
       ELSE /\ tpc' = "pointing"
            /\ lines' = <<>>
            /\ propid' = ParseInt(xmltab["ProposalID"][1]).val
            /\ loc' = NoLocals
            /\ act_counter' = 1
            /\ cols' = EmptyCols
            /\ pc' = "scan"
            /\ exc' = "none"
            /\ pointing' = <<>>
            /\ UNCHANGED texc
    /\ UNCHANGED <<pointing_file, observation_table, exposure_tab, written>>

\* line 710: there is a next line in the file
MoreLines == tpc = "pointing" /\ Len(lines) < Len(pointing_file)

\* line 414: get_pointing_info raised
PointingRaised ==
    /\ tpc = "pointing"
    /\ pc = "raised"
    /\ Abort("get_pointing_info", exc)
    /\ UNCHANGED <<pointing_file, observation_table, exposure_tab, written>>

\* lines 353-371: combine_dicts
combine_dicts(dict1, dict2) == dict2 @@ dict1

\* a variant of lines 418-423 that combines the tables whatever their sizes
CombineUnchecked ==
    /\ tpc = "pointing"
    /\ pc = "returned"
    /\ obstab' = combine_dicts(xmltab, pointing)
    /\ tpc' = "info"
    /\ UNCHANGED texc
    /\ UNCHANGED <<finaltab, detectors, row, dpc>>
    /\ UNCHANGED <<pointing_file, observation_table, exposure_tab, written>>

\* lines 418-423: the assertion on the sizes, then the combined table
Combine ==
    /\ tpc = "pointing"
    /\ pc = "returned"
    /\ IF Len(xmltab["ProposalID"]) = Len(pointing["obs_num"])
       THEN /\ obstab' = combine_dicts(xmltab, pointing)
            /\ tpc' = "info"
            /\ UNCHANGED texc
       ELSE /\ Abort("create_input_table", "AssertionError")
            /\ UNCHANGED obstab
    /\ UNCHANGED <<finaltab, detectors, row, dpc>>
    /\ UNCHANGED <<pointing_file, observation_table, exposure_tab, written>>

\* line 434: obstab = self.add_observation_info(obstab)
AddObservationInfo ==
    /\ tpc = "info"
    /\ \E info \in {add_observation_info(obstab, observation_table)} :
          IF info.exc = "none"
          THEN /\ obstab' = info.val
               /\ tpc' = "detectors"
               /\ UNCHANGED texc
          ELSE /\ Abort("add_observation_info", info.exc)
               /\ UNCHANGED obstab
    /\ UNCHANGED <<finaltab, detectors, row, dpc>>
    /\ UNCHANGED <<pointing_file, observation_table, exposure_tab, written>>

\* lines 442-450: the detector of each row, in the order of the rows, for a
\* table without NIRCam; a row of another instrument gives none
RECURSIVE DetectorColumn(_, _)
DetectorColumn(tab, k) ==
    IF k > Len(tab["Instrument"]) THEN Ok(<<>>)
    ELSE LET rest == DetectorColumn(tab, k + 1)
             instrument == Lower(tab["Instrument"][k])
         IN  IF instrument = "fgs" /\ k > Len(tab["aperture"]) THEN Raise("IndexError")
             ELSE IF rest.exc # "none" THEN rest
             ELSE IF instrument = "niriss" THEN Ok(<<"NIS">> \o rest.val)
             ELSE IF instrument = "fgs" /\ Contains(tab["aperture"][k], "FGS1")
               THEN Ok(<<"G1">> \o rest.val)
             ELSE IF instrument = "fgs" /\ Contains(tab["aperture"][k], "FGS2")
               THEN Ok(<<"G2">> \o rest.val)
             ELSE rest

\* line 439: the Module column holds nothing but 'None'
NoModule(tab) == \A k \in 1..Len(tab["Module"]) : tab["Module"][k] = "None"

\* lines 439-451: the detector column of a table without NIRCam
SetDetectors ==
    /\ tpc = "detectors"
    /\ NoModule(obstab)
    /\ \E column \in {DetectorColumn(obstab, 1)} :
          IF column.exc = "none"
          THEN /\ obstab' = [detector |-> column.val] @@ obstab
               /\ exposure_tab' = [detector |-> column.val] @@ obstab
               /\ tpc' = "write"
               /\ UNCHANGED texc
          ELSE /\ Abort("create_input_table", column.exc)
               /\ UNCHANGED <<obstab, exposure_tab>>
    /\ UNCHANGED <<finaltab, detectors, row, dpc>>
    /\ UNCHANGED <<pointing_file, observation_table, written>>

\* lines 453, 488-493: the call of expand_for_detectors
CallExpandForDetectors ==
    /\ tpc = "detectors"
    /\ ~NoModule(obstab)
    /\ finaltab' = [name \in DOMAIN obstab \cup {"detector"} |-> <<>>]
    /\ detectors' = <<>>
    /\ row' = 0
    /\ dpc' = "loop"
    /\ tpc' = "expand"
    /\ UNCHANGED <<obstab, texc>>
    /\ UNCHANGED <<pointing_file, observation_table, exposure_tab, written>>

\* line 453: expand_for_detectors raised
DetectorsRaised ==
    /\ tpc = "expand"
    /\ dpc = "raised"
    /\ Abort("expand_for_detectors", RowDetectors(obstab, row + 1, detectors).exc)
    /\ UNCHANGED <<pointing_file, observation_table, exposure_tab, written>>

\* line 453: self.exposure_tab = the table returned
DetectorsReturned ==
    /\ tpc = "expand"
    /\ dpc = "returned"
    /\ exposure_tab' = finaltab
    /\ tpc' = "write"
    /\ UNCHANGED <<pointing_file, observation_table, written, texc>>

\* Table(dict): the columns of a table have one length
Rectangular(tab) ==
    \A name, other \in DOMAIN tab : Len(tab[name]) = Len(tab[other])

\* lines 459-461: the table is written to expand_for_detectors.csv
WriteDetectorsFile ==
    /\ tpc = "write"
    /\ IF Rectangular(exposure_tab)
       THEN /\ written' = Append(written, "expand_for_detectors.csv")
            /\ tpc' = "radec"
            /\ UNCHANGED texc
       ELSE /\ Abort("Table", "ValueError")
            /\ UNCHANGED written
    /\ UNCHANGED <<pointing_file, observation_table, exposure_tab>>

\* table[name][k] (k counts from 1)
At(tab, name, k) ==
    IF name \notin DOMAIN tab THEN Raise("KeyError")
    ELSE IF Len(tab[name]) < k THEN Raise("IndexError")
    ELSE Ok(tab[name][k])

\* np.float(table[name][k]) of a column of strings
FloatAt(tab, name, k) ==
    IF At(tab, name, k).exc # "none" THEN At(tab, name, k)
    ELSE ParseFloat(tab[name][k])

\* lines 886-898: what ra_dec_update reads of row k before it calls the
\* SIAF library, in statement order, each with the exception it raises
\* (ra and dec are the strings of the pointing file, v2 and v3 the numbers
\* made of them at lines 815-816, the roll angle a number or the string of
\* one)
RowPointing(tab, k) ==
    << At(tab, "Instrument", k), At(tab, "aperture", k),
       FloatAt(tab, "ra", k), FloatAt(tab, "dec", k),
       At(tab, "v2", k), At(tab, "v3", k),
       IF "pav3" \in DOMAIN tab THEN At(tab, "pav3", k) ELSE At(tab, "PAV3", k) >>

\* the exception reading row k raises ("none": the row is read)
ReadRaises(tab, k) ==
    IF FirstRaise(RowPointing(tab, k)) = 0 THEN "none"
    ELSE RowPointing(tab, k)[FirstRaise(RowPointing(tab, k))].exc

\* lines 464, 877-983: ra_dec_update. The attitude comes from the SIAF
\* library, which is not part of this module: the call gives a position or
\* raises, and the position is kept as the name of the aperture it is of
RaDecUpdate ==
    /\ tpc = "radec"
    /\ \/ /\ \A k \in 1..Len(exposure_tab["Module"]) :
                ReadRaises(exposure_tab, k) = "none"
          /\ exposure_tab' =
                [ra_ref |-> [k \in 1..Len(exposure_tab["Module"]) |->
                                "ra of " \o exposure_tab["aperture"][k]],
                 dec_ref |-> [k \in 1..Len(exposure_tab["Module"]) |->
                                "dec of " \o exposure_tab["aperture"][k]]]
                @@ exposure_tab
          /\ tpc' = "output"
          /\ UNCHANGED texc
       \/ /\ \E k \in 1..Len(exposure_tab["Module"]) :
                /\ \A j \in 1..(k - 1) : ReadRaises(exposure_tab, j) = "none"
                /\ IF ReadRaises(exposure_tab, k) # "none"
                   THEN Abort("ra_dec_update", ReadRaises(exposure_tab, k))
                   ELSE Abort("get_siaf_information", "Exception")
          /\ UNCHANGED exposure_tab
    /\ UNCHANGED <<pointing_file, observation_table, written>>

\* lines 467-471: the final table is written to the output csv file
WriteOutputFile ==
    /\ tpc = "output"
    /\ IF Rectangular(exposure_tab)
       THEN /\ written' = Append(written, "output_csv")
            /\ tpc' = "done"
            /\ UNCHANGED texc
       ELSE /\ Abort("Table", "ValueError")
            /\ UNCHANGED written
    /\ UNCHANGED <<pointing_file, observation_table, exposure_tab>>


(* --------------------------- specifications --------------------------- *)
XIdle ==
    /\ apt_xml_dict = <<>>
    /\ expanded = <<>>
    /\ expanded_table = <<>>
    /\ xrow = 0
    /\ xpc = "idle"
    /\ xmltab = <<>>

BIdle ==
    /\ arg36 = 0
    /\ ret36 = ""
    /\ bpc = "idle"

DIdle ==
    /\ obstab = <<>>
    /\ finaltab = <<>>
    /\ detectors = <<>>
    /\ row = 0
    /\ dpc = "idle"

TIdle ==
    /\ pointing_file = <<>>
    /\ observation_table = <<>>
    /\ exposure_tab = <<>>
    /\ written = <<>>
    /\ tpc = "idle"
    /\ texc = NoException

\* get_pointing_info on the prefixes of the pointing files
Init == PInit /\ DIdle /\ BIdle /\ XIdle /\ TIdle

Next ==
    \/ \E line \in Lines : SkipLine(line) /\ UNCHANGED <<dvars, bvars, xvars, tvars>>
    \/ \E line \in Lines : SplitRaises(line) /\ UNCHANGED <<dvars, bvars, xvars, tvars>>
    \/ \E line \in Lines : HeaderLine(line) /\ UNCHANGED <<dvars, bvars, xvars, tvars>>
    \/ \E line \in Lines : BodyLine(line) /\ UNCHANGED <<dvars, bvars, xvars, tvars>>
    \/ Return /\ UNCHANGED <<dvars, bvars, xvars, tvars>>

Spec == Init /\ [][Next]_vars

\* expand_for_detectors on the tables of ObsTables
PIdle ==
    /\ lines = <<>>
    /\ propid = 0
    /\ loc = NoLocals
    /\ act_counter = 1
    /\ cols = EmptyCols
    /\ pc = "idle"
    /\ exc = "none"
    /\ pointing = <<>>

InitDetectors == PIdle /\ DInit /\ BIdle /\ XIdle /\ TIdle

NextDetectors ==
    \/ LoopRow /\ UNCHANGED <<pvars, bvars, xvars, tvars>>
    \/ DReturn /\ UNCHANGED <<pvars, bvars, xvars, tvars>>

SpecDetectors == InitDetectors /\ [][NextDetectors]_vars

\* base36encode on the integers 0..MaxInteger
InitBase36 == PIdle /\ DIdle /\ BInit /\ XIdle /\ TIdle

NextBase36 == Encode /\ UNCHANGED <<pvars, dvars, xvars, tvars>>

SpecBase36 == InitBase36 /\ [][NextBase36]_vars

\* the dither step of create_input_table on the tables of DitherTables
InitDithers == PIdle /\ DIdle /\ BIdle /\ XInit /\ TIdle

NextDithers ==
    \/ SkipDithers /\ UNCHANGED <<pvars, dvars, bvars, tvars>>
    \/ CallExpand /\ UNCHANGED <<pvars, dvars, bvars, tvars>>
    \/ PrimaryRow /\ UNCHANGED <<pvars, dvars, bvars, tvars>>
    \/ PrimaryDone /\ UNCHANGED <<pvars, dvars, bvars, tvars>>
    \/ ImageRow /\ UNCHANGED <<pvars, dvars, bvars, tvars>>
    \/ ExpandReturn /\ UNCHANGED <<pvars, dvars, bvars, tvars>>

SpecDithers == InitDithers /\ [][NextDithers]_vars

\* create_input_table on the tables, pointing files and yaml lists above
InitTable == PIdle /\ DIdle /\ BIdle /\ TInit

NextTable ==
    \/ tpc = "dithers" /\ SkipDithers /\ UNCHANGED <<pvars, dvars, bvars, tvars>>
    \/ tpc = "dithers" /\ CallExpand /\ UNCHANGED <<pvars, dvars, bvars, tvars>>
    \/ tpc = "dithers" /\ PrimaryRow /\ UNCHANGED <<pvars, dvars, bvars, tvars>>
    \/ tpc = "dithers" /\ PrimaryDone /\ UNCHANGED <<pvars, dvars, bvars, tvars>>
    \/ tpc = "dithers" /\ ImageRow /\ UNCHANGED <<pvars, dvars, bvars, tvars>>
    \/ tpc = "dithers" /\ ExpandReturn /\ UNCHANGED <<pvars, dvars, bvars, tvars>>
    \/ DithersRaised /\ UNCHANGED <<pvars, dvars, bvars, xvars>>
    \/ CallPointing /\ UNCHANGED <<dvars, bvars, xvars>>
    \/ MoreLines /\ (\E line \in {pointing_file[Len(lines) + 1]} : SkipLine(line))
          /\ UNCHANGED <<dvars, bvars, xvars, tvars>>
    \/ MoreLines /\ (\E line \in {pointing_file[Len(lines) + 1]} : SplitRaises(line))
          /\ UNCHANGED <<dvars, bvars, xvars, tvars>>
    \/ MoreLines /\ (\E line \in {pointing_file[Len(lines) + 1]} : HeaderLine(line))
          /\ UNCHANGED <<dvars, bvars, xvars, tvars>>
    \/ MoreLines /\ (\E line \in {pointing_file[Len(lines) + 1]} : BodyLine(line))
          /\ UNCHANGED <<dvars, bvars, xvars, tvars>>
    \/ tpc = "pointing" /\ Len(lines) = Len(pointing_file) /\ Return
          /\ UNCHANGED <<dvars, bvars, xvars, tvars>>
    \/ PointingRaised /\ UNCHANGED <<pvars, dvars, bvars, xvars>>
    \/ Combine /\ UNCHANGED <<pvars, bvars, xvars>>
    \/ AddObservationInfo /\ UNCHANGED <<pvars, bvars, xvars>>
    \/ SetDetectors /\ UNCHANGED <<pvars, bvars, xvars>>
    \/ CallExpandForDetectors /\ UNCHANGED <<pvars, bvars, xvars>>
    \/ tpc = "expand" /\ LoopRow /\ UNCHANGED <<pvars, bvars, xvars, tvars>>
    \/ tpc = "expand" /\ DReturn /\ UNCHANGED <<pvars, bvars, xvars, tvars>>
    \/ DetectorsRaised /\ UNCHANGED <<pvars, dvars, bvars, xvars>>
    \/ DetectorsReturned /\ UNCHANGED <<pvars, dvars, bvars, xvars>>
    \/ WriteDetectorsFile /\ UNCHANGED <<pvars, dvars, bvars, xvars>>
    \/ RaDecUpdate /\ UNCHANGED <<pvars, dvars, bvars, xvars>>
    \/ WriteOutputFile /\ UNCHANGED <<pvars, dvars, bvars, xvars>>

SpecTable == InitTable /\ [][NextTable]_vars

(* ------------------- properties of get_pointing_info ------------------ *)
Last(q) == q[Len(q)]

\* field k (0-based) of a line
Field(line, k) == Tokens(line)[k + 1]

\* a line that is neither passed over nor a header: it goes through the
\* label / visit tests and on to the try block
Candidate(line) ==
    ~Skipped(line) /\ Tokens(line) # <<>> /\ Tokens(line)[1] # "JWST"

\* the acceptance predicate for a set of instrument codes: field[1] is an
\* integer > 0 and field[4] contains one of the codes
SatisfiesPredicate(line, codes) ==
    /\ Candidate(line)
    /\ Len(Tokens(line)) >= 5
    /\ ParseInt(Field(line, 1)).exc = "none"
    /\ ParseInt(Field(line, 1)).val > 0
    /\ \E code \in codes : Contains(Field(line, 4), code)

\* the five codes the source tests for
FiveCodes == {"NRC", "NIS", "FGS", "NRS", "MIR"}

\* four of them, whichever: the count the spec gives without naming them
FourCodes == CHOOSE S \in SUBSET FiveCodes : Cardinality(S) = 4

\* every numeric field of a 22-field data line parses
WellFormedFields(line) ==
    /\ Len(Tokens(line)) >= 21
    /\ \A k \in {0, 1, 3, 5, 19, 20} : ParseInt(Field(line, k)).exc = "none"
    /\ \A k \in 11..16 : ParseFloat(Field(line, k)).exc = "none"
    /\ \/ Field(line, 18) = "PARALLEL"
       \/ Len(Tokens(line)) >= 22 /\ ParseFloat(Field(line, 21)).exc = "none"

\* how many of the lines read so far satisfy P
HowMany(P(_)) == Cardinality({k \in 1..Len(lines) : P(lines[k])})

AcceptedOfFour(line) == SatisfiesPredicate(line, FourCodes)
AcceptedOfFive(line) == SatisfiesPredicate(line, FiveCodes)
Completed(line) == SatisfiesPredicate(line, FiveCodes) /\ WellFormedFields(line)

Lockstep == \A a, b \in ColSet : Len(cols[a]) = Len(cols[b])

\* the value of a base-36 string
RECURSIVE Decode36(_, _)
Decode36(s, acc) ==
    IF s = "" THEN acc ELSE Decode36(Tail(s), 36 * acc + Find(chars, Ch(s, 1)))

\* C1: while the scan goes on, all the per-row lists have the same length: a
\* line appends to every list or to none.  Fails: a ValueError in the middle
\* of the accept branch is caught after some lists were appended to.
C1_ColumnsInLockstep == pc # "raised" => Lockstep

C3_ActIdsStrictlyIncreasing ==
    pc # "raised" =>
        \A j, k \in 1..Len(cols.activity_id) :
            j < k => Decode36(cols.activity_id[j], 0) < Decode36(cols.activity_id[k], 0)

C5_NeverAborts == pc # "raised"

\* C6: a header line never raises, and leaves the proposal id at the parsed
\* field, or at what it was when the field is no integer.  Fails: a header
\* of fewer than 8 tokens raises IndexError at line 717.
C6_HeaderNeverRaises ==
    [][(lines' # lines /\ Tokens(Last(lines')) # <<>>
            /\ Tokens(Last(lines'))[1] = "JWST" /\ ~Skipped(Last(lines')))
        => /\ pc' # "raised"
           /\ propid' =
                IF /\ Len(Tokens(Last(lines'))) >= 8
                   /\ ParseInt(Field(Last(lines'), 7)).exc = "none"
                THEN ParseInt(Field(Last(lines'), 7)).val
                ELSE propid]_vars

\* C7: every visit_id entry is 11 characters long, whatever the proposal id
\* and the <obs>:<visit> token.  Fails: "{0:05d}" and zfill(3) pad but never
\* cut, so a proposal id above 99999 or a part of 4 characters gives 12.
C7_VisitIdAlways11 ==
    \A k \in 1..Len(cols.visit_id) : Len(cols.visit_id[k]) = 11

\* C8 as stated: observation_id is visit_id, "00000000", "01", "1" and act_id
\* in a row, so that it starts with the row's visit_id.
C8_VisitIdIsPrefix ==
    Lockstep =>
        \A k \in 1..Len(cols.observation_id) :
            cols.observation_id[k] =
                cols.visit_id[k] \o "00000000" \o "01" \o "1" \o cols.activity_id[k]

\* C8 amended: an observation_id entry is "V", the visit id, "P", "00000000",
\* "01", "1" and the activity id that the same line appended to visit_id and
\* act_id: the visit id follows a leading "V" and is no prefix.
C8_ObservationIdFormat ==
    [][Len(cols'.observation_id) > Len(cols.observation_id)
        => Last(cols'.observation_id) =
             "V" \o Last(cols'.visit_id) \o "P" \o "00000000" \o "01" \o "1"
                 \o Last(cols'.activity_id)]_vars

\* C8 witness: two rows are complete
C8_Witness == Len(cols.observation_id) = 2

\* a label line without a parenthesis, and its label
PlainLabel(line) == Slice(line, 0, 2) = "* " /\ ~Contains(line, "(")

\* a visit line "** t o:v"
VisitForm(line) ==
    /\ Slice(line, 0, 2) = "**"
    /\ Len(Tokens(line)) = 3
    /\ Len(SplitOn(Field(line, 2), ":")) = 2

\* C9: after a label line "* L" and a visit line "** t o:v", every
\* well-formed accepted data line gives one row with that label, o and v
\* padded to 3, its field[2] padded to 5 and its field[4]; the first row has
\* act_id "01".  Fails for t a positive integer, as in "** 1 1:1": the visit
\* line goes on into the acceptance test, which raises IndexError.
C9_RowsCarryLabelAndVisit ==
    (/\ Len(lines) >= 2
     /\ PlainLabel(lines[1])
     /\ VisitForm(lines[2])
     /\ \A k \in 3..Len(lines) : lines[k] \in GoodLines)
    => /\ pc # "raised"
       /\ Len(cols.activity_id) = Len(lines) - 2
       /\ Lockstep
       /\ \A k \in 1..Len(cols.activity_id) :
            /\ cols.observation_label[k] = Strip(SliceFrom(lines[1], 2))
            /\ cols.observation_number[k] = Zfill(SplitOn(Field(lines[2], 2), ":")[1], 3)
            /\ cols.visit_number[k] = Zfill(SplitOn(Field(lines[2], 2), ":")[2], 3)
            /\ cols.exp[k] = Zfill(Field(lines[k + 2], 2), 5)
            /\ cols.aperture[k] = Field(lines[k + 2], 4)
            /\ (k = 1 => cols.activity_id[k] = "01")

(* ----------------- properties of expand_for_detectors ----------------- *)
BankA == <<"A1", "A2", "A3", "A4", "A5">>
BankB == <<"B1", "B2", "B3", "B4", "B5">>

\* a designation covered by the rules: ALL, A, B, or one naming a detector
\* among singles
Covered(module, singles) ==
    module \in {"ALL", "A", "B"}
        \/ \E k \in 1..Len(singles) : Contains(module, singles[k])

\* detector_set of a covered designation
DetectorSet(module, singles) ==
    IF module = "ALL" THEN BankA \o BankB
    ELSE IF module = "A" THEN BankA
    ELSE IF module = "B" THEN BankB
    ELSE LET named == {k \in 1..Len(singles) : Contains(module, singles[k])}
         IN  <<singles[CHOOSE k \in named : \A j \in named : k <= j]>>

\* rows k.. of a column, each as often as its module has detectors
RECURSIVE Replicated(_, _, _, _)
Replicated(column, mods, singles, k) ==
    IF k > Len(mods) THEN <<>>
    ELSE [j \in 1..Len(DetectorSet(mods[k], singles)) |-> column[k]]
         \o Replicated(column, mods, singles, k + 1)

RECURSIVE DetectorNames(_, _, _)
DetectorNames(mods, singles, k) ==
    IF k > Len(mods) THEN <<>>
    ELSE DetectorSet(mods[k], singles) \o DetectorNames(mods, singles, k + 1)

RECURSIVE SumOfSets(_, _, _)
SumOfSets(mods, singles, k) ==
    IF k > Len(mods) THEN 0
    ELSE Len(DetectorSet(mods[k], singles)) + SumOfSets(mods, singles, k + 1)

\* for a table of covered designations the function returns; every input
\* column holds row k's value once per detector of row k, in input order; the
\* detector column holds the sets' names in order; all columns have the
\* length of the sum of the set sizes
Expansion(singles) ==
    (dpc \in {"returned", "raised"}
        /\ \A k \in 1..Len(obstab["Module"]) : Covered(obstab["Module"][k], singles))
    => /\ dpc = "returned"
       /\ \A key \in ObsKeys :
            finaltab[key] = Replicated(obstab[key], obstab["Module"], singles, 1)
       /\ finaltab["detector"] = DetectorNames(obstab["Module"], singles, 1)
       /\ \A key \in DOMAIN finaltab :
            Len(finaltab[key]) = SumOfSets(obstab["Module"], singles, 1)

\* C10 as stated: the expansion, where a designation naming any one of the
\* ten detectors gives that detector.
C10_AnySingleDetector == Expansion(BankA \o BankB)

\* C10 amended: the expansion, where the single detectors a designation can
\* name are A3 and B4 (A3 first); no table is returned for a designation
\* naming another detector, as "A1".
C10_DetectorExpansion ==
    /\ Expansion(<<"A3", "B4">>)
    /\ dpc = "returned" => \A k \in 1..Len(obstab["Module"]) : obstab["Module"][k] # "A1"

\* C10 witness: a two-row table, ALL then a single detector, gives 11 rows
C10_Witness ==
    /\ dpc = "returned"
    /\ obstab["Module"] = <<"ALL", "NRCB4">>
    /\ Len(finaltab["detector"]) = 11

\* a designation one of the rules recognises: ALL, A, B, one naming A3 or
\* B4, or one with the marker DHSPIL that ends in the bank letter A or B
Recognised(module) ==
    \/ module \in {"ALL", "A", "B"}
    \/ Contains(module, "A3")
    \/ Contains(module, "B4")
    \/ Contains(module, "DHSPIL") /\ Ch(module, Len(module)) \in {"A", "B"}

\* C11: no rows are emitted for a designation that no rule recognises: every
\* row the loop has gone past has a recognised designation.  Fails: for
\* DHSPIL without the bank letter, line 513 builds the ValueError and does
\* not raise it, and the row is expanded with the detectors of the row before.
C11_UnknownDesignationRaises ==
    \A k \in 1..row : Recognised(obstab["Module"][k])

(* --------------------- properties of base36encode --------------------- *)
\* the encodings of the integers 0..MaxInteger
Encodings == [m \in 0..MaxInteger |-> base36encode(m)] @@ <<>>

\* C20: base36encode(n) is over the alphabet 0-9a-z and has the base-36
\* value n, most significant digit first; it has exactly 2 characters for n
\* in 0..1295 and more than 2, without leading zero, for n >= 1296; no other
\* integer has the same encoding.
C20_Base36Encoding ==
    bpc = "returned" =>
        /\ \A at \in 1..Len(ret36) : Contains(chars, Ch(ret36, at))
        /\ Decode36(ret36, 0) = arg36
        /\ arg36 <= 1295 => Len(ret36) = 2
        /\ arg36 >= 1296 => Len(ret36) > 2 /\ Ch(ret36, 1) # "0"
        /\ \A m \in 0..MaxInteger : Encodings[m] = ret36 => m = arg36

\* C20 witness: 35 gave "0z" or 1296 gave "100"
C20_Witness ==
    /\ bpc = "returned"
    /\ \/ arg36 = 35 /\ ret36 = "0z"
       \/ arg36 = 1296 /\ ret36 = "100"

(* ------------------- properties of the dither step -------------------- *)
\* the number of rows of a table
RowsOf(t) == Len(t["ImageDithers"])

\* subpixel_count and primary_count of C13
SubpixelCount(subpix) ==
    IF subpix \in {"0", "NONE"} THEN 1
    ELSE IF subpix = "4-Point" THEN 4
    ELSE 9

PrimaryCount(primary) == IF primary = "0" THEN 1 ELSE ParseInt(primary).val

RECURSIVE SumOfCounts(_, _)
SumOfCounts(t, at) ==
    IF at > RowsOf(t) THEN 0
    ELSE SubpixelCount(t["SubpixelPositions"][at]) * PrimaryCount(t["PrimaryDithers"][at])
         + SumOfCounts(t, at + 1)

\* C13: when some row has a primary or subpixel count other than 1, every
\* column the primary-dither pass leaves has as many entries as the sum over
\* the rows of subpixel_count * primary_count.  Fails: line 569 takes the
\* first character of PrimaryDithers only, and line 551 skips the pass when
\* all primary counts are 1.
C13_PrimaryPassRowCount ==
    (xpc = "image"
        /\ \E at \in 1..RowsOf(apt_xml_dict) :
              \/ PrimaryCount(apt_xml_dict["PrimaryDithers"][at]) # 1
              \/ SubpixelCount(apt_xml_dict["SubpixelPositions"][at]) # 1)
    => \A key \in DOMAIN expanded :
          Len(expanded[key]) = SumOfCounts(apt_xml_dict, 1)

\* a prime row and a parallel row of a coordinated parallel
Prime(t, at) ==
    t["CoordinatedParallel"][at] = "true" /\ ~t["ParallelInstrument"][at]

Parallel(t, at) ==
    t["CoordinatedParallel"][at] = "true" /\ t["ParallelInstrument"][at]

\* every row is flagged true or false, and every prime row has a parallel
\* successor
Paired(t) ==
    \A at \in 1..RowsOf(t) :
        /\ t["CoordinatedParallel"][at] \in {"true", "false"}
        /\ Prime(t, at) => at < RowsOf(t) /\ Parallel(t, at + 1)

\* the input indices (from 0) of the output rows: for a prime row the pair
\* (i, i + 1), for a row flagged false the row i, ImageDithers[i] times each
RECURSIVE BlockIndices(_, _, _)
BlockIndices(t, at, left) ==
    IF at > RowsOf(t) THEN <<>>
    ELSE IF left = 0 THEN BlockIndices(t, at + 1, -1)
    ELSE LET count == IF left < 0 THEN t["ImageDithers"][at] ELSE left
         IN  IF Prime(t, at)
             THEN <<at - 1, at>> \o BlockIndices(t, at, count - 1)
             ELSE IF t["CoordinatedParallel"][at] = "false"
             THEN <<at - 1>> \o BlockIndices(t, at, count - 1)
             ELSE BlockIndices(t, at + 1, -1)

C16_NoRowDropped ==
    xpc = "returned" =>
        /\ Len(xmltab["ObservationID"]) >= RowsOf(apt_xml_dict)
        /\ \A at \in 1..RowsOf(apt_xml_dict) :
              \E to \in 1..Len(xmltab["ObservationID"]) :
                  xmltab["ObservationID"][to] = apt_xml_dict["ObservationID"][at]

(* ------------------ properties of create_input_table ------------------ *)
\* the detector step of lines 439-451 has set the detector column
DetectorsSet ==
    /\ tpc \in {"write", "radec", "output", "done"}
    /\ dpc = "idle"

\* the instrument sets the metadata step is to accept without NIRCam
Accepted(names) ==
    \/ names = {"niriss"}
    \/ "niriss" \in names /\ names \ {"niriss"} \in {{"fgs"}, {"miri"}, {"nirspec"}}

\* the detector the step is to give a row of a table without NIRCam
Resolved(detector, instrument, aperture) ==
    IF Lower(instrument) = "niriss" THEN detector = "NIS"
    ELSE IF Lower(instrument) = "fgs"
      THEN IF Contains(aperture, "FGS1") THEN detector = "G1" ELSE detector = "G2"
    ELSE detector # ""

\* C12: when every Module entry is 'None', the detector step keeps the N
\* rows of the table and gives a detector column of N entries, entry i
\* resolved from the instrument (and, for FGS, the aperture) of row i
C12_DetectorPerRow ==
    DetectorsSet /\ Accepted(unique_instrument_names(obstab)) =>
        /\ Len(obstab["Instrument"]) = Len(xmltab["ProposalID"])
        /\ Len(obstab["detector"]) = Len(xmltab["ProposalID"])
        /\ \A k \in 1..Len(obstab["detector"]) :
              Resolved(obstab["detector"][k], obstab["Instrument"][k],
                       obstab["aperture"][k])

\* add_observation_info has just returned normally
InfoReturned == tpc = "detectors"

\* the columns add_observation_info added to the combined table
AddedColumns == DOMAIN obstab \ (DOMAIN xmltab \cup DOMAIN pointing)

\* C18: when add_observation_info returns normally, the label of every row
\* has a match in the metadata lookup and every column it added, with
\* epoch_start_date among them, has exactly N entries, whatever the
\* instrument set is
C18_EveryRowMatched ==
    InfoReturned =>
        /\ \A k \in 1..Len(obstab["obs_label"]) :
              Matches(observation_table, obstab["obs_label"][k]) # {}
        /\ "epoch_start_date" \in AddedColumns
        /\ \A name \in AddedColumns :
              Len(obstab[name]) = Len(xmltab["ProposalID"])

\* the filter the lookup entry matched to a row gives for a channel, as a
\* list (empty: none), for a row of a NIRCam table
GivenFor(k, channel) ==
    LET obslist == observation_table[FirstMatch(observation_table,
                                                obstab["obs_label"][k])].value
    IN  FilterGiven(FilterConfig(observation_table, obslist,
                                 obstab["exposure"][k]).val, channel)

\* the column is the XML column with the filters the lookup gives put in
Overridden(column, channel) ==
    /\ Len(obstab[column]) = Len(xmltab[column])
    /\ \A k \in 1..Len(xmltab[column]) :
          obstab[column][k] = IF GivenFor(k, channel) # <<>>
                              THEN GivenFor(k, channel)[1]
                              ELSE xmltab[column][k]

\* C19: after add_observation_info in the NIRCam case, ShortFilter and
\* LongFilter hold for every row the filter of the lookup entry matched to
\* the row when it gives one and the value of the XML table otherwise, the
\* columns keeping their N entries
C19_FilterOverridePerRow ==
    InfoReturned /\ unique_instrument_names(obstab) = {"nircam"} =>
        /\ Overridden("ShortFilter", "SW")
        /\ Overridden("LongFilter", "LW")

\* the two tables have been combined
Combined == DOMAIN obstab # {}

\* the sizes line 418 compares are the same
SameCount == Len(xmltab["ProposalID"]) = Len(pointing["obs_num"])

\* get_pointing_info has returned and line 418 has been passed or has raised
AssertionDone == pc = "returned" /\ tpc # "pointing"

AssertionFailed ==
    tpc = "raised" /\ texc = [site |-> "create_input_table", type |-> "AssertionError"]

\* the run has ended in one of the fatal structural errors: the sizes differ
\* (line 418), a module designation is not known (line 515), a label has no
\* entry in the yaml list (lines 187, 280, 305), the instruments are a set
\* that is not supported (line 326)
StructuralError ==
    /\ tpc = "raised"
    /\ \/ texc = [site |-> "create_input_table", type |-> "AssertionError"]
       \/ texc = [site |-> "expand_for_detectors", type |-> "ValueError"]
       \/ texc = [site |-> "add_observation_info", type |-> "ValueError"]
       \/ texc = [site |-> "add_observation_info", type |-> "NotImplementedError"]

\* C17: the XML table and the pointing table are combined only when they
\* have the same number of rows; when the numbers differ the run ends at
\* the assertion; and a run that has ended in a fatal structural error has
\* written no file
C17_NoOutputOnStructuralError ==
    /\ Combined => SameCount
    /\ AssertionDone /\ ~SameCount => AssertionFailed /\ ~Combined
    /\ StructuralError => written = <<>>

\* the sizes differed and the run ended at the assertion, nothing combined
\* and nothing written
C17_Witness ==
    /\ AssertionFailed
    /\ Len(xmltab["ProposalID"]) = 2
    /\ Len(pointing["obs_num"]) = 1
    /\ ~Combined
    /\ written = <<>>

\* the step reads a label line or a visit line
ReadsLabelOrVisit ==
    /\ Len(lines') = Len(lines) + 1
    /\ Slice(Last(lines'), 0, 2) \in {"* ", "**"}

\* C22: reading a label line ("* ") or a visit line ("**") appends to no
\* output column and leaves the activity counter as it is, whatever the
\* tokens of the line are
C22_LabelAndVisitLinesOnlyCarry ==
    [][ReadsLabelOrVisit => cols' = cols /\ act_counter' = act_counter]_vars

(* -------------- properties of the two passes of the dither step ------- *)
\* both passes of expand_for_dithers are taken
BothPasses(t) == ~AllOneStr(t["PrimaryDithers"]) /\ ~AllOneInt(t["ImageDithers"])

\* the number of times the image-dither pass alone puts input row at into
\* its output: with its own block, and with the block of a prime row
\* before it
ImageCopies(t, at) ==
    (IF Prime(t, at) THEN Max(t["ImageDithers"][at], 1)
     ELSE IF t["CoordinatedParallel"][at] = "false" THEN t["ImageDithers"][at]
     ELSE 0)
    + (IF at > 1 /\ Prime(t, at - 1) THEN Max(t["ImageDithers"][at - 1], 1) ELSE 0)

==============================================================================
